---- MODULE Spec2Model ----
(***************************************************************************)
(* Model of the AttachFlow rule-execution engine                           *)
(* (attachflow_core/email_core.py) and of its Django management command    *)
(* (rules/management/commands/run_rule.py).                                *)
(*                                                                         *)
(* Strings are sequences of one-character strings.  The IMAP server, the   *)
(* destination directory and the clock are the environment; every call     *)
(* into them that can raise is a nondeterministic choice between its       *)
(* outcomes.                                                               *)
(***************************************************************************)
EXTENDS Integers, Sequences, FiniteSets, TLC

(***************************************************************************)
(* Bounds of the model.                                                    *)
(***************************************************************************)
MaxMsgs == 2        \* messages in the IMAP folder (UIDs 1..MaxMsgs)
MaxAtts == 2        \* attachment parts per message
MaxFailures == 1    \* failures the environment injects in one behaviour

(***************************************************************************)
(* String helpers.                                                         *)
(***************************************************************************)
Digit(d) == CASE d = 0 -> "0" [] d = 1 -> "1" [] d = 2 -> "2" [] d = 3 -> "3"
              [] d = 4 -> "4" [] d = 5 -> "5" [] d = 6 -> "6" [] d = 7 -> "7"
              [] d = 8 -> "8" [] d = 9 -> "9"

RECURSIVE IntToStr(_)
IntToStr(n) == IF n < 10 THEN <<Digit(n)>>
               ELSE IntToStr(n \div 10) \o <<Digit(n % 10)>>

\* Largest position of character c in s, 0 when absent (str.rfind + 1).
RFind(s, c) == LET P == {p \in DOMAIN s : s[p] = c}
               IN IF P = {} THEN 0 ELSE CHOOSE p \in P : \A q \in P : q <= p

\* sub occurs in s as a contiguous substring.
Contains(s, sub) ==
    \E p \in 0..(Len(s) - Len(sub)) :
        \A q \in 1..Len(sub) : s[p + q] = sub[q]

\* F applied to the value of v (v is evaluated once).
Let(v, F(_)) == CHOOSE r \in {F(x) : x \in {v}} : TRUE

\* The concatenation of a sequence of strings.
RECURSIVE ConcatFrom(_, _)
ConcatFrom(ss, p) == IF p > Len(ss) THEN <<>> ELSE ss[p] \o ConcatFrom(ss, p + 1)

Concat(ss) == Let(ss, LAMBDA v : ConcatFrom(v, 1))

(***************************************************************************)
(* pathlib: Path(attachment_name).suffix and .stem                         *)
(***************************************************************************)
\* Last path component of a name (no trailing separators in the model).
PathName(name) == SubSeq(name, RFind(name, "/") + 1, Len(name))

PathSuffix(name) ==
    LET n == PathName(name)
        p == RFind(n, ".")
    IN IF 1 < p /\ p < Len(n) THEN SubSeq(n, p, Len(n)) ELSE <<>>

PathStem(name) ==
    LET n == PathName(name)
        p == RFind(n, ".")
    IN IF 1 < p /\ p < Len(n) THEN SubSeq(n, 1, p - 1) ELSE n

(***************************************************************************)
(* _sanitize_filename                                                      *)
(***************************************************************************)
ForbiddenChars == {"\\", "/", "*", "?", ":", "\"", "<", ">", "|"}

_sanitize_filename(name) ==
    [p \in DOMAIN name |-> IF name[p] \in ForbiddenChars THEN "_" ELSE name[p]]

(***************************************************************************)
(* Strings used by the configurations and messages of the model.           *)
(***************************************************************************)
S_Bills   == <<"B", "i", "l", "l", "s">>
S_Acct    == <<"I", "n", "v">>
S_a_pdf   == <<"a", ".", "p", "d", "f">>
S_b_txt   == <<"b", ".", "t", "x", "t">>
S_pdf     == <<"p", "d", "f">>
S_INBOX   == <<"I", "N", "B", "O", "X">>
S_Archive == <<"A", "r", "c", "h">>
S_Invoice == <<"I", "n", "v", "o", "i", "c", "e">>
S_Other   == <<"O", "t", "h", "e", "r">>
S_c_p_f   == <<"c", ".", "p", ":", "f">>
S_noext   == <<"n", "o", "t", "e">>
S_B_lls   == <<"B", "/", "l", "s">>

(***************************************************************************)
(* Filename templates.  A template is held tokenised: literal characters,  *)
(* replacement fields {name} and date fields {date:FORMAT}; FORMAT is a    *)
(* sequence of strftime directives and literal characters.                 *)
(***************************************************************************)
Lit(s)     == [p \in DOMAIN s |-> [t |-> "lit", v |-> <<s[p]>>]]
Field(n)   == <<[t |-> "field", v |-> <<n>>]>>
DateF(fmt) == <<[t |-> "date", v |-> fmt]>>

\* RuleConfig.filename_template default (email_core.py:64, repeated at :173).
DefaultTemplate ==
    DateF(<<"%Y", ".", "%m", ".", "%d", " ", "%H", ".", "%M">>)
      \o Lit(<<" ", "-", " ">>) \o Field("rule_name") \o Field("index") \o Field("ext")

\* A template of the documented placeholders that does not end with {ext}.
StemTemplate == Field("rule_name") \o Field("ext") \o Field("index") \o Lit(<<"-">>) \o Field("original_name")

\* The template of the documented end-to-end scenario.
ExampleTemplate ==
    DateF(<<"%Y", "-", "%m", "-", "%d">>)
      \o Lit(<<" ", "-", " ">>) \o Field("rule_name") \o Field("index") \o Field("ext")

\* A template of the documented placeholders without {index}.
NoIndexTemplate == Field("rule_name") \o Field("ext")

\* A template with a placeholder str.format does not know (KeyError).
BadTemplate == Field("rule_name") \o Field("sender") \o Field("ext")

KnownFields == {"rule_name", "account_name", "original_name", "index", "ext"}

\* The Date header of a message, parsed; NoDate when absent or unparseable.
NoDate == [Y |-> <<>>, m |-> <<>>, d |-> <<>>, H |-> <<>>, M |-> <<>>]
Date1  == [Y |-> <<"2", "0", "2", "4">>, m |-> <<"0", "3">>, d |-> <<"0", "1">>,
           H |-> <<"0", "9">>, M |-> <<"3", "0">>]
\* datetime.now() at the time of the run.
Now    == [Y |-> <<"2", "0", "2", "5">>, m |-> <<"0", "1">>, d |-> <<"0", "2">>,
           H |-> <<"1", "0">>, M |-> <<"0", "0">>]

_get_message_datetime(msg) == msg.date

\* datetime.strftime for the directives the model uses.
Strftime(fmt, dt) ==
    Concat([p \in DOMAIN fmt |->
              CASE fmt[p] = "%Y" -> dt.Y
                [] fmt[p] = "%m" -> dt.m
                [] fmt[p] = "%d" -> dt.d
                [] fmt[p] = "%H" -> dt.H
                [] fmt[p] = "%M" -> dt.M
                [] OTHER -> <<fmt[p]>>])

\* Step 1: every {date:FORMAT} field becomes dt.strftime(FORMAT).
_format_date_in_template(template_str, dt) ==
    [p \in DOMAIN template_str |->
        IF template_str[p].t = "date"
        THEN [t |-> "text", v |-> Strftime(template_str[p].v, dt)]
        ELSE template_str[p]]

\* Step 2: str.format with the five keyword arguments; raises KeyError on
\* any other field name.
FormatRaises(filled) ==
    \E p \in DOMAIN filled : filled[p].t = "field" /\ filled[p].v[1] \notin KnownFields

FormatFields(filled, kw) ==
    Concat([p \in DOMAIN filled |->
              IF filled[p].t = "field" THEN kw[filled[p].v[1]] ELSE filled[p].v])

(***************************************************************************)
(* build_download_filename                                                 *)
(***************************************************************************)
\* Mutation of CollisionLoop: the computed path is used as it is.
CollisionLoop_none(final_path, safe_name, ext, counter, existing) == final_path

\* The collision loop: counter = 2, 3, ... until the candidate is free.
RECURSIVE CollisionLoop(_, _, _, _, _)
CollisionLoop(final_path, safe_name, ext, counter, existing) ==
    IF final_path \in existing
    THEN LET base == IF ext # <<>>
                     THEN SubSeq(safe_name, 1, Len(safe_name) - Len(ext))
                     ELSE safe_name
             candidate == base \o <<"_">> \o IntToStr(counter) \o ext
         IN CollisionLoop(candidate, safe_name, ext, counter + 1, existing)
    ELSE final_path

\* Mutation of build_download_filename: the first attachment gets "_1".
build_download_filename_index1(msg, attachment_name, rule, index, existing) ==
    LET dt0 == _get_message_datetime(msg)
        msg_date == IF dt0 = NoDate THEN Now ELSE dt0
        ext == PathSuffix(attachment_name)
        original_stem == PathStem(attachment_name)
        template == IF rule.filename_template # <<>> THEN rule.filename_template
                    ELSE DefaultTemplate
        index_placeholder == IF index > 0 THEN <<"_">> \o IntToStr(index) ELSE <<>>
        kw == [rule_name |-> rule.name,
               account_name |-> rule.account_name,
               original_name |-> original_stem,
               index |-> index_placeholder,
               ext |-> ext]
    IN Let(_format_date_in_template(template, msg_date), LAMBDA filled :
         IF FormatRaises(filled)
         THEN [raised |-> TRUE, path |-> <<>>]
         ELSE Let(FormatFields(filled, kw), LAMBDA formatted :
              Let(_sanitize_filename(formatted), LAMBDA safe_name :
                [raised |-> FALSE,
                 path |-> CollisionLoop(safe_name, safe_name, ext, 2, existing)])))

\* existing: the names present in dest_folder at the moment of the call.
\* Result: [raised |-> TRUE] or [raised |-> FALSE, path |-> name in dest_folder].
\* (filled, formatted and safe_name are bound as values: each is computed once.)
build_download_filename(msg, attachment_name, rule, index, existing) ==
    LET dt0 == _get_message_datetime(msg)
        msg_date == IF dt0 = NoDate THEN Now ELSE dt0
        ext == PathSuffix(attachment_name)
        original_stem == PathStem(attachment_name)
        template == IF rule.filename_template # <<>> THEN rule.filename_template
                    ELSE DefaultTemplate
        index_placeholder == IF index > 1 THEN <<"_">> \o IntToStr(index) ELSE <<>>
        kw == [rule_name |-> rule.name,
               account_name |-> rule.account_name,
               original_name |-> original_stem,
               index |-> index_placeholder,
               ext |-> ext]
    IN Let(_format_date_in_template(template, msg_date), LAMBDA filled :
         IF FormatRaises(filled)
         THEN [raised |-> TRUE, path |-> <<>>]
         ELSE Let(FormatFields(filled, kw), LAMBDA formatted :
              Let(_sanitize_filename(formatted), LAMBDA safe_name :
                [raised |-> FALSE,
                 path |-> CollisionLoop(safe_name, safe_name, ext, 2, existing)])))

(***************************************************************************)
(* Configurations and messages.                                            *)
(***************************************************************************)
UIDs == 1..MaxMsgs

\* RuleConfig, with account.name or account.username as account_name.
\* An empty filename_template stands for the default (email_core.py:173).
GoodRuleConfigs ==
    [name : {S_Bills}, account_name : {S_Acct}, imap_folder : {S_INBOX},
     from_contains : {<<>>}, subject_contains : {<<>>},
     filename_regex : {<<>>, S_pdf},
     mark_as_read : BOOLEAN, move_to_folder : {<<>>, S_Archive},
     filename_template : {<<>>}]

\* The default rule (email_core.py:57-64) with a subject filter.
SubjectRuleConfig ==
    [name |-> S_Bills, account_name |-> S_Acct, imap_folder |-> S_INBOX,
     from_contains |-> <<>>, subject_contains |-> S_Invoice, filename_regex |-> <<>>,
     mark_as_read |-> TRUE, move_to_folder |-> <<>>,
     filename_template |-> <<>>]

\* The default rule with a template str.format cannot fill.
BadRuleConfig ==
    [name |-> S_Bills, account_name |-> S_Acct, imap_folder |-> S_INBOX,
     from_contains |-> <<>>, subject_contains |-> <<>>, filename_regex |-> <<>>,
     mark_as_read |-> TRUE, move_to_folder |-> <<>>,
     filename_template |-> BadTemplate]

\* The default rule with a sender filter, and with both filters.
FromRuleConfig ==
    [name |-> S_Bills, account_name |-> S_Acct, imap_folder |-> S_INBOX,
     from_contains |-> S_Acct, subject_contains |-> <<>>, filename_regex |-> <<>>,
     mark_as_read |-> TRUE, move_to_folder |-> <<>>,
     filename_template |-> <<>>]

FromSubjectRuleConfig ==
    [name |-> S_Bills, account_name |-> S_Acct, imap_folder |-> S_INBOX,
     from_contains |-> S_Other, subject_contains |-> S_Invoice, filename_regex |-> <<>>,
     mark_as_read |-> TRUE, move_to_folder |-> <<>>,
     filename_template |-> <<>>]

RuleConfigs == GoodRuleConfigs \cup {SubjectRuleConfig, FromRuleConfig,
                                     FromSubjectRuleConfig, BadRuleConfig}

\* Headers of the messages on the server.
From(u)    == IF u = 1 THEN S_Other ELSE S_Acct
Subject(u) == IF u % 2 = 1 THEN S_Invoice ELSE S_Other

\* Filenames of the attachment parts of a message, in msg.walk() order.
\* A message carries the first n of b.txt, a.pdf, b.txt, ... (n <= MaxAtts).
AttName(n) == IF n % 2 = 1 THEN S_b_txt ELSE S_a_pdf
AttLists == {[n \in 1..k |-> AttName(n)] : k \in 0..MaxAtts}

\* A parsed message: Date and Message-ID headers and the parts
\* _iter_attachments yields (disposition "attachment", non-empty filename).
Messages == [uid : UIDs, date : {Date1}, atts : AttLists]
Unfetched == [uid |-> 0, date |-> NoDate, atts |-> <<>>]

_get_message_id(msg) == <<"<">> \o IntToStr(msg.uid) \o <<">">>

\* part.get_payload(decode=True) or b"" of the j-th attachment part.
Payload(msg, j) == <<msg.uid, j>>

\* _iter_attachments: the (filename, payload) pairs of a message.
_iter_attachments(msg) ==
    [j \in DOMAIN msg.atts |-> [filename |-> msg.atts[j], payload |-> Payload(msg, j)]]

\* re.search(rule.filename_regex, filename) for the literal patterns used.
ReSearch(pattern, filename) == Contains(filename, pattern)

(***************************************************************************)
(* _build_search_criteria and the server's evaluation of the criteria.     *)
(***************************************************************************)
\* Mutation of _build_search_criteria: the subject filter is an elif of
\* the sender filter.
_build_search_criteria_elif(rule) ==
    LET c1 == <<<<"A", "L", "L">>>>
    IN IF rule.from_contains # <<>>
       THEN c1 \o <<<<"F", "R", "O", "M">>, rule.from_contains>>
       ELSE IF rule.subject_contains # <<>>
            THEN c1 \o <<<<"S", "U", "B", "J", "E", "C", "T">>, rule.subject_contains>>
            ELSE c1

_build_search_criteria(rule) ==
    LET c1 == <<<<"A", "L", "L">>>>
        c2 == IF rule.from_contains # <<>>
              THEN c1 \o <<<<"F", "R", "O", "M">>, rule.from_contains>> ELSE c1
        c3 == IF rule.subject_contains # <<>>
              THEN c2 \o <<<<"S", "U", "B", "J", "E", "C", "T">>, rule.subject_contains>>
              ELSE c2
    IN c3

\* IMAP SEARCH: the conjunction of the search keys of the criteria list.
RECURSIVE CriteriaMatch(_, _)
CriteriaMatch(criteria, u) ==
    IF criteria = <<>> THEN TRUE
    ELSE IF Head(criteria) = <<"A", "L", "L">>
         THEN CriteriaMatch(Tail(criteria), u)
    ELSE IF Head(criteria) = <<"F", "R", "O", "M">>
         THEN Contains(From(u), criteria[2]) /\ CriteriaMatch(Tail(Tail(criteria)), u)
    ELSE Contains(Subject(u), criteria[2]) /\ CriteriaMatch(Tail(Tail(criteria)), u)

\* The UIDs of a set in ascending order, as the server returns them.
RECURSIVE SortedSeq(_)
SortedSeq(S) == IF S = {} THEN <<>>
                ELSE LET m == CHOOSE x \in S : \A y \in S : x <= y
                     IN <<m>> \o SortedSeq(S \ {m})

\* Mutation of ServerSearch: the criteria are ignored.
ServerSearch_all(criteria, inFolder) == SortedSeq(inFolder)

ServerSearch(criteria, inFolder) ==
    SortedSeq({u \in inFolder : CriteriaMatch(criteria, u)})

(***************************************************************************)
(* State.                                                                  *)
(***************************************************************************)
VARIABLES
    rule,            \* the RuleConfig of the rule being run
    mailbox,         \* server: UID -> message (Unfetched until first fetched)
    folder,          \* server: UIDs currently in rule.imap_folder
    seen,            \* server: UIDs carrying the \Seen flag
    dir_exists,      \* filesystem: dest_folder exists
    files,           \* filesystem: name in dest_folder -> content
    via,             \* who calls run_rule: "command" or "api"
    prev,            \* the previous invocation, as the caller saw it
    processed_uids,  \* run_rule argument (after the None -> set() default)
    pc,              \* position in run_rule
    client,          \* "none", "open", "closed" (logged out)
    uids,            \* result of client.search
    i,               \* position of the for-loop in uids
    msg,             \* the parsed message of the current UID
    j,               \* position of the attachment loop in _iter_attachments(msg)
    attachment_index,
    final_path,
    stats,           \* the RunStats being accumulated
    exc,             \* exception propagating out of the try block
    outcome,         \* "none", "returned", "raised"
    calls,           \* calls made to the session and the filesystem in this run
    failures,        \* failures injected so far
    other            \* a concurrent run of the rule on the same dest_folder

vars == <<rule, mailbox, folder, seen, dir_exists, files, via, prev,
          processed_uids, pc, client, uids, i, msg, j, attachment_index,
          final_path, stats, exc, outcome, calls, failures, other>>

envVars   == <<rule, mailbox, folder, seen, dir_exists, files>>
callVars  == <<via, prev, processed_uids, other>>
localVars == <<uids, i, msg, j, attachment_index, final_path>>

\* RunStats() (email_core.py:79-85).
RunStats == [emails_processed |-> 0, attachments_downloaded |-> 0,
             errors |-> <<>>, downloaded_attachments |-> <<>>,
             processed_uids |-> {}]

\* No previous invocation.
NoPrev == [outcome |-> "none", uids |-> <<>>, processed_uids |-> {}, saved |-> {},
           files |-> <<>>]

uid_str(uid) == IntToStr(uid)

CanFail == failures < MaxFailures

\* No concurrent run.
NoOther == [pc |-> "off", path |-> <<>>, saved |-> <<>>]

Call(op, uid, ok) == [op |-> op, uid |-> uid, ok |-> ok]

Init ==
    /\ rule \in RuleConfigs
    /\ mailbox = [u \in UIDs |-> Unfetched]
    /\ folder = UIDs
    /\ seen = {}
    /\ dir_exists = FALSE
    /\ files = <<>>
    /\ via = "none"
    /\ prev = NoPrev
    /\ processed_uids = {}
    /\ pc = "idle"
    /\ client = "none"
    /\ uids = <<>>
    /\ i = 0
    /\ msg = Unfetched
    /\ j = 0
    /\ attachment_index = 0
    /\ final_path = <<>>
    /\ stats = RunStats
    /\ exc = "none"
    /\ outcome = "none"
    /\ calls = <<>>
    /\ failures = 0
    /\ other = NoOther


(***************************************************************************)
(* The callers.  The rule is invoked, and then invoked once more on the    *)
(* mailbox and the directory the first invocation left behind.             *)
(***************************************************************************)
\* What the caller has in hand when run_rule has ended.
\* saved: the UIDs of the AttachmentDownload records of the run.
Range(f) == {f[x] : x \in DOMAIN f}

Summary == [outcome |-> outcome, uids |-> uids,
            processed_uids |-> stats.processed_uids,
            saved |-> {r.uid : r \in Range(stats.downloaded_attachments)},
            files |-> files]

\* Entry of run_rule (email_core.py:300-303): processed_uids defaulted,
\* stats = RunStats().
Enter(caller, arg) ==
    /\ via' = caller
    /\ processed_uids' = arg
    /\ stats' = RunStats
    /\ pc' = "mkdir"
    /\ client' = "none"
    /\ uids' = <<>>
    /\ i' = 0
    /\ msg' = Unfetched
    /\ j' = 0
    /\ attachment_index' = 0
    /\ final_path' = <<>>
    /\ exc' = "none"
    /\ outcome' = "none"
    /\ calls' = <<>>
    /\ UNCHANGED <<envVars, failures, other>>

\* Command.handle: run_rule(rule_cfg), no processed_uids argument; the
\* returned stats are printed and dropped.
CommandHandle ==
    /\ pc = "idle"
    /\ prev' = prev
    /\ Enter("command", {})

\* The command run once more, after an invocation that returned.
CommandHandleAgain ==
    /\ pc = "done" /\ via = "command" /\ prev = NoPrev
    /\ outcome = "returned"
    /\ prev' = Summary
    /\ Enter("command", {})

\* The already-processed sets a caller holds before its first invocation.
InitialProcessed == {{}, {uid_str(1)}}

\* A caller of the core that keeps the returned processed-UID set and
\* supplies it back on the next invocation (docstring, email_core.py:295-298).
ApiFirstCall ==
    /\ pc = "idle"
    /\ prev' = prev
    /\ \E S \in InitialProcessed : Enter("api", S)

ApiSecondCall ==
    /\ pc = "done" /\ via = "api" /\ prev = NoPrev
    /\ outcome = "returned"
    /\ prev' = Summary
    /\ Enter("api", stats.processed_uids)

(***************************************************************************)
(* run_rule                                                                *)
(***************************************************************************)
\* Mutation of Mkdir: a failure to create the directory is ignored and the
\* run goes on to connect.
Mkdir_ignored ==
    /\ pc = "mkdir"
    /\ \/ /\ dir_exists' = TRUE
          /\ calls' = Append(calls, Call("mkdir", 0, TRUE))
          /\ UNCHANGED failures
       \/ /\ CanFail /\ ~dir_exists
          /\ failures' = failures + 1
          /\ calls' = Append(calls, Call("mkdir", 0, FALSE))
          /\ UNCHANGED dir_exists
    /\ pc' = "connect"
    /\ UNCHANGED <<rule, mailbox, folder, seen, files, callVars, localVars,
                   client, stats, exc, outcome>>

\* dest_folder.mkdir(parents=True, exist_ok=True)  (email_core.py:305-306)
Mkdir ==
    /\ pc = "mkdir"
    /\ \/ /\ dir_exists' = TRUE
          /\ calls' = Append(calls, Call("mkdir", 0, TRUE))
          /\ pc' = "connect"
          /\ UNCHANGED <<outcome, failures>>
       \/ /\ CanFail /\ ~dir_exists
          /\ failures' = failures + 1
          /\ calls' = Append(calls, Call("mkdir", 0, FALSE))
          /\ pc' = "done"
          /\ outcome' = "raised"
          /\ UNCHANGED dir_exists
    /\ UNCHANGED <<rule, mailbox, folder, seen, files, callVars, localVars,
                   client, stats, exc>>

\* Mutation of Connect: the connection is made inside the try block, so a
\* failure reaches the finally clause.
Connect_in_try ==
    /\ pc = "connect"
    /\ \/ /\ client' = "open"
          /\ calls' = Append(calls, Call("connect", 0, TRUE))
          /\ pc' = "select"
          /\ UNCHANGED <<stats, failures>>
       \/ /\ CanFail
          /\ failures' = failures + 1
          /\ calls' = Append(calls, Call("connect", 0, FALSE))
          /\ stats' = [stats EXCEPT !.errors = Append(@, [kind |-> "connect", ref |-> <<>>])]
          /\ pc' = "finally"
          /\ UNCHANGED client
    /\ UNCHANGED <<envVars, callVars, localVars, exc, outcome>>

\* client = _connect_imap(account_cfg), except: record and return
\* (email_core.py:317-323)
Connect ==
    /\ pc = "connect"
    /\ \/ /\ client' = "open"
          /\ calls' = Append(calls, Call("connect", 0, TRUE))
          /\ pc' = "select"
          /\ UNCHANGED <<stats, outcome, failures>>
       \/ /\ CanFail
          /\ failures' = failures + 1
          /\ calls' = Append(calls, Call("connect", 0, FALSE))
          /\ stats' = [stats EXCEPT !.errors = Append(@, [kind |-> "connect", ref |-> <<>>])]
          /\ pc' = "done"
          /\ outcome' = "returned"
          /\ UNCHANGED client
    /\ UNCHANGED <<envVars, callVars, localVars, exc>>

\* Mutation of SelectFolder: no finally clause, the exception leaves
\* run_rule with the session open.
SelectFolder_no_finally ==
    /\ pc = "select"
    /\ \/ /\ calls' = Append(calls, Call("select_folder", 0, TRUE))
          /\ pc' = "search"
          /\ UNCHANGED <<exc, outcome, failures>>
       \/ /\ CanFail
          /\ failures' = failures + 1
          /\ calls' = Append(calls, Call("select_folder", 0, FALSE))
          /\ exc' = "select_folder"
          /\ pc' = "done"
          /\ outcome' = "raised"
    /\ UNCHANGED <<envVars, callVars, localVars, client, stats>>

\* Mutation of SelectFolder: a failure is swallowed and the run goes on
\* to the search.
SelectFolder_ignored ==
    /\ pc = "select"
    /\ \/ /\ calls' = Append(calls, Call("select_folder", 0, TRUE))
          /\ UNCHANGED failures
       \/ /\ CanFail
          /\ failures' = failures + 1
          /\ calls' = Append(calls, Call("select_folder", 0, FALSE))
    /\ pc' = "search"
    /\ UNCHANGED <<envVars, callVars, localVars, client, stats, exc, outcome>>

\* client.select_folder(rule.imap_folder, readonly=False)  (email_core.py:327)
SelectFolder ==
    /\ pc = "select"
    /\ \/ /\ calls' = Append(calls, Call("select_folder", 0, TRUE))
          /\ pc' = "search"
          /\ UNCHANGED <<exc, failures>>
       \/ /\ CanFail
          /\ failures' = failures + 1
          /\ calls' = Append(calls, Call("select_folder", 0, FALSE))
          /\ exc' = "select_folder"
          /\ pc' = "finally"
    /\ UNCHANGED <<envVars, callVars, localVars, client, stats, outcome>>

\* criteria = _build_search_criteria(rule); uids = client.search(criteria)
\* (email_core.py:330-335)
Search ==
    /\ pc = "search"
    /\ \/ /\ uids' = ServerSearch(_build_search_criteria(rule), folder)
          /\ calls' = Append(calls, Call("search", 0, TRUE))
          /\ i' = 1
          /\ pc' = "loop"
          /\ UNCHANGED <<exc, failures>>
       \/ /\ CanFail
          /\ failures' = failures + 1
          /\ calls' = Append(calls, Call("search", 0, FALSE))
          /\ exc' = "search"
          /\ pc' = "finally"
          /\ UNCHANGED <<uids, i>>
    /\ UNCHANGED <<envVars, callVars, msg, j, attachment_index, final_path,
                   client, stats, outcome>>

\* Mutation of AlreadyProcessed: the UID is looked up in the set being
\* built by this run instead of the caller's.
AlreadyProcessed_own(uid) == uid_str(uid) \in stats.processed_uids

\* uid_str in processed_uids  (email_core.py:338-341)
AlreadyProcessed(uid) == uid_str(uid) \in processed_uids

\* for uid in uids: exhausted  (email_core.py:337)
LoopEnd ==
    /\ pc = "loop"
    /\ i > Len(uids)
    /\ pc' = "finally"
    /\ UNCHANGED <<envVars, callVars, localVars, client, stats, exc, outcome,
                   calls, failures>>

\* Mutation of SkipProcessed: the skipped message is counted as examined.
SkipProcessed_counts ==
    /\ pc = "loop"
    /\ i <= Len(uids)
    /\ AlreadyProcessed(uids[i])
    /\ i' = i + 1
    /\ stats' = [stats EXCEPT !.emails_processed = @ + 1]
    /\ UNCHANGED <<envVars, callVars, uids, msg, j, attachment_index, final_path,
                   pc, client, exc, outcome, calls, failures>>

\* if uid_str in processed_uids: continue  (email_core.py:338-343)
SkipProcessed ==
    /\ pc = "loop"
    /\ i <= Len(uids)
    /\ AlreadyProcessed(uids[i])
    /\ i' = i + 1
    /\ UNCHANGED <<envVars, callVars, uids, msg, j, attachment_index, final_path,
                   pc, client, stats, exc, outcome, calls, failures>>


\* Where the for-loop over uids goes after the current message.
NextUid == /\ i' = i + 1
           /\ pc' = "loop"

\* fetch_data = client.fetch([uid], ["RFC822"]) and the parse of the
\* response (email_core.py:345-360).
\*  - the call raises: the error is recorded, continue with the next UID;
\*  - the response has no entry for uid: fetch_data[uid][b"RFC822"] raises
\*    KeyError, which no handler of the loop catches;
\*  - otherwise the message is parsed and counted.
\* Mutation of FetchRaises: no handler around the fetch, the exception
\* ends the loop.
FetchRaises_abort ==
    /\ pc = "loop"
    /\ i <= Len(uids)
    /\ ~AlreadyProcessed(uids[i])
    /\ CanFail
    /\ failures' = failures + 1
    /\ calls' = Append(calls, Call("fetch", uids[i], FALSE))
    /\ exc' = "fetch"
    /\ pc' = "finally"
    /\ UNCHANGED <<envVars, callVars, localVars, client, stats, outcome>>

\* Mutation of FetchRaises: the message is counted before the fetch.
FetchRaises_counts ==
    /\ pc = "loop"
    /\ i <= Len(uids)
    /\ ~AlreadyProcessed(uids[i])
    /\ CanFail
    /\ failures' = failures + 1
    /\ calls' = Append(calls, Call("fetch", uids[i], FALSE))
    /\ stats' = [stats EXCEPT !.emails_processed = @ + 1,
                              !.errors = Append(@, [kind |-> "fetch", ref |-> uid_str(uids[i])])]
    /\ NextUid
    /\ UNCHANGED <<envVars, callVars, uids, msg, j, attachment_index, final_path,
                   client, exc, outcome>>

\* Mutation of FetchRaises: the failed fetch is tried again (the loop stays
\* on the same UID).
FetchRaises_retries ==
    /\ pc = "loop"
    /\ i <= Len(uids)
    /\ ~AlreadyProcessed(uids[i])
    /\ CanFail
    /\ failures' = failures + 1
    /\ calls' = Append(calls, Call("fetch", uids[i], FALSE))
    /\ stats' = [stats EXCEPT !.errors = Append(@, [kind |-> "fetch", ref |-> uid_str(uids[i])])]
    /\ UNCHANGED <<envVars, callVars, localVars, pc, client, exc, outcome>>

FetchRaises ==
    /\ pc = "loop"
    /\ i <= Len(uids)
    /\ ~AlreadyProcessed(uids[i])
    /\ CanFail
    /\ failures' = failures + 1
    /\ calls' = Append(calls, Call("fetch", uids[i], FALSE))
    /\ stats' = [stats EXCEPT !.errors = Append(@, [kind |-> "fetch", ref |-> uid_str(uids[i])])]
    /\ NextUid
    /\ UNCHANGED <<envVars, callVars, uids, msg, j, attachment_index, final_path,
                   client, exc, outcome>>

FetchMissing ==
    /\ pc = "loop"
    /\ i <= Len(uids)
    /\ ~AlreadyProcessed(uids[i])
    /\ CanFail
    /\ failures' = failures + 1
    /\ calls' = Append(calls, Call("fetch", uids[i], TRUE))
    /\ exc' = "KeyError"
    /\ pc' = "finally"
    /\ UNCHANGED <<envVars, callVars, localVars, client, stats, outcome>>

\* Mutation of FetchOk: attachment_index is not reset for the message.
FetchOk_no_reset ==
    /\ pc = "loop"
    /\ i <= Len(uids)
    /\ ~AlreadyProcessed(uids[i])
    /\ \E m \in Messages :
          /\ m.uid = uids[i]
          /\ mailbox[uids[i]] \in {Unfetched, m}
          /\ mailbox' = [mailbox EXCEPT ![uids[i]] = m]
          /\ msg' = m
    /\ calls' = Append(calls, Call("fetch", uids[i], TRUE))
    /\ stats' = [stats EXCEPT !.emails_processed = @ + 1]
    /\ j' = 1
    /\ pc' = "atts"
    /\ UNCHANGED <<rule, folder, seen, dir_exists, files, callVars, uids, i,
                   attachment_index, final_path, client, exc, outcome, failures>>

FetchOk ==
    /\ pc = "loop"
    /\ i <= Len(uids)
    /\ ~AlreadyProcessed(uids[i])
    /\ \E m \in Messages :
          /\ m.uid = uids[i]
          /\ mailbox[uids[i]] \in {Unfetched, m}
          /\ mailbox' = [mailbox EXCEPT ![uids[i]] = m]
          /\ msg' = m
    /\ calls' = Append(calls, Call("fetch", uids[i], TRUE))
    /\ stats' = [stats EXCEPT !.emails_processed = @ + 1]
    /\ attachment_index' = 0
    /\ j' = 1
    /\ pc' = "atts"
    /\ UNCHANGED <<rule, folder, seen, dir_exists, files, callVars, uids, i,
                   final_path, client, exc, outcome, failures>>

\* Mutation of SkipAttachment: the index is advanced for a skipped
\* attachment.
SkipAttachment_advances ==
    /\ pc = "atts"
    /\ j <= Len(msg.atts)
    /\ rule.filename_regex # <<>>
    /\ ~ReSearch(rule.filename_regex, _iter_attachments(msg)[j].filename)
    /\ j' = j + 1
    /\ attachment_index' = attachment_index + 1
    /\ UNCHANGED <<envVars, callVars, uids, i, msg, final_path,
                   pc, client, stats, exc, outcome, calls, failures>>

\* for filename, payload in _iter_attachments(msg), filename_regex filter
\* (email_core.py:362-371)
SkipAttachment ==
    /\ pc = "atts"
    /\ j <= Len(msg.atts)
    /\ rule.filename_regex # <<>>
    /\ ~ReSearch(rule.filename_regex, _iter_attachments(msg)[j].filename)
    /\ j' = j + 1
    /\ UNCHANGED <<envVars, callVars, uids, i, msg, attachment_index, final_path,
                   pc, client, stats, exc, outcome, calls, failures>>

\* Mutation of Resolve: the resolved path is reserved by creating it (the
\* existence check and the creation are one atomic step).
Resolve_reserves ==
    /\ pc = "atts"
    /\ j <= Len(msg.atts)
    /\ rule.filename_regex # <<>> => ReSearch(rule.filename_regex, _iter_attachments(msg)[j].filename)
    /\ attachment_index' = attachment_index + 1
    /\ \E r \in {build_download_filename(msg, _iter_attachments(msg)[j].filename,
                                         rule, attachment_index + 1, DOMAIN files)} :
          IF r.raised
          THEN /\ exc' = "KeyError"
               /\ pc' = "finally"
               /\ UNCHANGED <<final_path, files>>
          ELSE /\ final_path' = r.path
               /\ files' = [n \in DOMAIN files \cup {r.path} |->
                              IF n = r.path THEN <<>> ELSE files[n]]
               /\ pc' = "write"
               /\ UNCHANGED exc
    /\ UNCHANGED <<rule, mailbox, folder, seen, dir_exists, callVars, uids, i, msg, j,
                   client, stats, outcome, calls, failures>>

\* attachment_index += 1; final_path = build_download_filename(...)
\* (email_core.py:373-381)
Resolve ==
    /\ pc = "atts"
    /\ j <= Len(msg.atts)
    /\ rule.filename_regex # <<>> => ReSearch(rule.filename_regex, _iter_attachments(msg)[j].filename)
    /\ attachment_index' = attachment_index + 1
    /\ \E r \in {build_download_filename(msg, _iter_attachments(msg)[j].filename,
                                         rule, attachment_index + 1, DOMAIN files)} :
          IF r.raised
          THEN /\ exc' = "KeyError"
               /\ pc' = "finally"
               /\ UNCHANGED final_path
          ELSE /\ final_path' = r.path
               /\ pc' = "write"
               /\ UNCHANGED exc
    /\ UNCHANGED <<envVars, callVars, uids, i, msg, j, client, stats, outcome,
                   calls, failures>>

\* The AttachmentDownload of a saved attachment (email_core.py:392-405).
AttachmentDownload(uid, att, path) ==
    [rule_name |-> rule.name, account_name |-> rule.account_name,
     folder |-> rule.imap_folder, uid |-> uid_str(uid),
     message_id |-> _get_message_id(msg),
     original_filename |-> att.filename, final_path |-> path,
     size_bytes |-> Len(att.payload)]

\* A file of dest_folder after open("wb") and write.
WriteFile(fs, path, content) ==
    [n \in DOMAIN fs \cup {path} |-> IF n = path THEN content ELSE fs[n]]

\* with final_path.open("wb") as f: f.write(payload)  (email_core.py:383-405)
\*  - success: counter and record;
\*  - open raises: nothing is written;
\*  - write raises after open truncated or created the file.
\* Both failures are recorded and the attachment loop continues.
WriteOk ==
    /\ pc = "write"
    /\ LET att == _iter_attachments(msg)[j]
       IN /\ files' = WriteFile(files, final_path, att.payload)
          /\ stats' = [stats EXCEPT
                         !.attachments_downloaded = @ + 1,
                         !.downloaded_attachments =
                             Append(@, AttachmentDownload(uids[i], att, final_path))]
    /\ calls' = Append(calls, Call("write", uids[i], TRUE))
    /\ j' = j + 1
    /\ pc' = "atts"
    /\ UNCHANGED <<rule, mailbox, folder, seen, dir_exists, callVars, uids, i, msg,
                   attachment_index, final_path, client, exc, outcome, failures>>

\* Mutation of WriteFails: the attachment is counted before the write is
\* attempted.
WriteFails_counts ==
    /\ pc = "write"
    /\ CanFail
    /\ failures' = failures + 1
    /\ \/ UNCHANGED files
       \/ files' = WriteFile(files, final_path, <<>>)
    /\ stats' = [stats EXCEPT !.attachments_downloaded = @ + 1,
                              !.errors = Append(@, [kind |-> "write", ref |-> final_path])]
    /\ calls' = Append(calls, Call("write", uids[i], FALSE))
    /\ j' = j + 1
    /\ pc' = "atts"
    /\ UNCHANGED <<rule, mailbox, folder, seen, dir_exists, callVars, uids, i, msg,
                   attachment_index, final_path, client, exc, outcome>>

\* Mutation of WriteFails: the failure ends the attachment loop of the
\* message (break instead of continue).
WriteFails_aborts ==
    /\ pc = "write"
    /\ CanFail
    /\ failures' = failures + 1
    /\ \/ UNCHANGED files
       \/ files' = WriteFile(files, final_path, <<>>)
    /\ stats' = [stats EXCEPT !.errors = Append(@, [kind |-> "write", ref |-> final_path])]
    /\ calls' = Append(calls, Call("write", uids[i], FALSE))
    /\ j' = Len(msg.atts) + 1
    /\ pc' = "atts"
    /\ UNCHANGED <<rule, mailbox, folder, seen, dir_exists, callVars, uids, i, msg,
                   attachment_index, final_path, client, exc, outcome>>

WriteFails ==
    /\ pc = "write"
    /\ CanFail
    /\ failures' = failures + 1
    /\ \/ UNCHANGED files
       \/ files' = WriteFile(files, final_path, <<>>)
    /\ stats' = [stats EXCEPT !.errors = Append(@, [kind |-> "write", ref |-> final_path])]
    /\ calls' = Append(calls, Call("write", uids[i], FALSE))
    /\ j' = j + 1
    /\ pc' = "atts"
    /\ UNCHANGED <<rule, mailbox, folder, seen, dir_exists, callVars, uids, i, msg,
                   attachment_index, final_path, client, exc, outcome>>

\* After the attachment loop: if attachment_index > 0 the UID is marked
\* processed and the post-actions follow (email_core.py:407-423).
AfterMark == IF rule.move_to_folder # <<>>
             THEN pc' = "move" /\ UNCHANGED i
             ELSE NextUid

\* Mutation of AnyAttachmentProcessed: an off-by-one in the test.
AnyAttachmentProcessed_off == attachment_index > 1

\* if attachment_index > 0  (email_core.py:408)
AnyAttachmentProcessed == attachment_index > 0

\* Mutation of EndMessage: the result's UID set is the caller's set itself
\* (stats.processed_uids aliases the argument), so the UID is added to both.
EndMessage_shared ==
    /\ pc = "atts"
    /\ j > Len(msg.atts)
    /\ IF AnyAttachmentProcessed
       THEN /\ stats' = [stats EXCEPT !.processed_uids = @ \cup {uid_str(uids[i])}]
            /\ processed_uids' = processed_uids \cup {uid_str(uids[i])}
            /\ IF rule.mark_as_read
               THEN pc' = "mark" /\ UNCHANGED i
               ELSE AfterMark
       ELSE /\ UNCHANGED <<stats, processed_uids>>
            /\ NextUid
    /\ UNCHANGED <<envVars, via, prev, other, uids, msg, j, attachment_index, final_path,
                   client, exc, outcome, calls, failures>>

EndMessage ==
    /\ pc = "atts"
    /\ j > Len(msg.atts)
    /\ IF AnyAttachmentProcessed
       THEN /\ stats' = [stats EXCEPT !.processed_uids = @ \cup {uid_str(uids[i])}]
            /\ IF rule.mark_as_read
               THEN pc' = "mark" /\ UNCHANGED i
               ELSE AfterMark
       ELSE /\ UNCHANGED stats
            /\ NextUid
    /\ UNCHANGED <<envVars, callVars, uids, msg, j, attachment_index, final_path,
                   client, exc, outcome, calls, failures>>

\* Mutation of MarkSeen: a failed add_flags ends the post-actions of the
\* message (the move is skipped).
MarkSeen_aborts ==
    /\ pc = "mark"
    /\ \/ /\ seen' = seen \cup {uids[i]}
          /\ calls' = Append(calls, Call("add_flags", uids[i], TRUE))
          /\ AfterMark
          /\ UNCHANGED failures
       \/ /\ CanFail
          /\ failures' = failures + 1
          /\ calls' = Append(calls, Call("add_flags", uids[i], FALSE))
          /\ NextUid
          /\ UNCHANGED seen
    /\ UNCHANGED <<rule, mailbox, folder, dir_exists, files, callVars, uids, msg, j,
                   attachment_index, final_path, client, stats, exc, outcome>>

\* client.add_flags([uid], [b"\\Seen"]), failure only logged
\* (email_core.py:412-420)
MarkSeen ==
    /\ pc = "mark"
    /\ \/ /\ seen' = seen \cup {uids[i]}
          /\ calls' = Append(calls, Call("add_flags", uids[i], TRUE))
          /\ UNCHANGED failures
       \/ /\ CanFail
          /\ failures' = failures + 1
          /\ calls' = Append(calls, Call("add_flags", uids[i], FALSE))
          /\ UNCHANGED seen
    /\ AfterMark
    /\ UNCHANGED <<rule, mailbox, folder, dir_exists, files, callVars, uids, msg, j,
                   attachment_index, final_path, client, stats, exc, outcome>>

\* Mutation of Move: a failed move is recorded as a run error.
Move_records ==
    /\ pc = "move"
    /\ \/ /\ folder' = folder \ {uids[i]}
          /\ calls' = Append(calls, Call("move", uids[i], TRUE))
          /\ UNCHANGED <<failures, stats>>
       \/ /\ CanFail
          /\ failures' = failures + 1
          /\ calls' = Append(calls, Call("move", uids[i], FALSE))
          /\ stats' = [stats EXCEPT !.errors = Append(@, [kind |-> "move", ref |-> uid_str(uids[i])])]
          /\ UNCHANGED folder
    /\ NextUid
    /\ UNCHANGED <<rule, mailbox, seen, dir_exists, files, callVars, uids, msg, j,
                   attachment_index, final_path, client, exc, outcome>>

\* client.move([uid], rule.move_to_folder), failure only logged
\* (email_core.py:423-432)
Move ==
    /\ pc = "move"
    /\ \/ /\ folder' = folder \ {uids[i]}
          /\ calls' = Append(calls, Call("move", uids[i], TRUE))
          /\ UNCHANGED failures
       \/ /\ CanFail
          /\ failures' = failures + 1
          /\ calls' = Append(calls, Call("move", uids[i], FALSE))
          /\ UNCHANGED folder
    /\ NextUid
    /\ UNCHANGED <<rule, mailbox, seen, dir_exists, files, callVars, uids, msg, j,
                   attachment_index, final_path, client, stats, exc, outcome>>

\* Mutation of Logout: an exception of logout is not swallowed.
Logout_escalates ==
    /\ pc = "finally"
    /\ \/ /\ calls' = Append(calls, Call("logout", 0, TRUE))
          /\ outcome' = IF exc # "none" THEN "raised" ELSE "returned"
          /\ UNCHANGED failures
       \/ /\ CanFail
          /\ failures' = failures + 1
          /\ calls' = Append(calls, Call("logout", 0, FALSE))
          /\ outcome' = "raised"
    /\ client' = "closed"
    /\ pc' = "done"
    /\ UNCHANGED <<envVars, callVars, localVars, stats, exc>>

\* finally: client.logout(), any exception of it swallowed; then the
\* exception of the try block propagates, or stats is returned
\* (email_core.py:434-446)
Logout ==
    /\ pc = "finally"
    /\ \/ /\ calls' = Append(calls, Call("logout", 0, TRUE))
          /\ UNCHANGED failures
       \/ /\ CanFail
          /\ failures' = failures + 1
          /\ calls' = Append(calls, Call("logout", 0, FALSE))
    /\ client' = "closed"
    /\ outcome' = IF exc # "none" THEN "raised" ELSE "returned"
    /\ pc' = "done"
    /\ UNCHANGED <<envVars, callVars, localVars, stats, exc>>

\* The steps of run_rule.
RunStep ==
    \/ Mkdir
    \/ Connect
    \/ SelectFolder
    \/ Search
    \/ LoopEnd
    \/ SkipProcessed
    \/ FetchRaises
    \/ FetchMissing
    \/ FetchOk
    \/ SkipAttachment
    \/ Resolve
    \/ WriteOk
    \/ WriteFails
    \/ EndMessage
    \/ MarkSeen
    \/ Move
    \/ Logout

\* One invocation of the rule, by either caller.
Next ==
    \/ CommandHandle
    \/ ApiFirstCall
    \/ RunStep

Spec == Init /\ [][Next]_vars

\* Two invocations in succession, for the rules that mark as read.
TwoRunInit == Init /\ rule \in GoodRuleConfigs /\ rule.mark_as_read

TwoRunNext ==
    \/ Next
    \/ CommandHandleAgain
    \/ ApiSecondCall

TwoRunSpec == TwoRunInit /\ [][TwoRunNext]_vars

(***************************************************************************)
(* The filename resolver on its own: the attachment loop of one message,   *)
(* entered with inputs drawn from bounded sets (rule name, template,       *)
(* attachment name, Date header, index, contents of dest_folder).          *)
(***************************************************************************)
ResolverRuleConfigs ==
    [name : {S_Bills, S_B_lls}, account_name : {S_Acct}, imap_folder : {S_INBOX},
     from_contains : {<<>>}, subject_contains : {<<>>}, filename_regex : {<<>>},
     mark_as_read : {TRUE}, move_to_folder : {<<>>},
     filename_template : {<<>>, ExampleTemplate, NoIndexTemplate, StemTemplate,
                          BadTemplate}]

ResolverAttNames == {S_a_pdf, S_b_txt, S_c_p_f, S_noext}

\* Names found in dest_folder: the k names the resolver gives when it is
\* called k times for the same attachment and each result is created.
RECURSIVE ExistingChain(_, _, _, _, _)
ExistingChain(m, name, r, index, k) ==
    IF k = 0 THEN {}
    ELSE Let(ExistingChain(m, name, r, index, k - 1), LAMBDA E :
           Let(build_download_filename(m, name, r, index, E), LAMBDA b :
             IF b.raised THEN E ELSE E \cup {b.path}))

\* Content of a file that was in dest_folder before the run.
OldContent == <<0>>

ResolverInit ==
    /\ rule \in ResolverRuleConfigs
    /\ \E n \in ResolverAttNames, d \in {Date1, NoDate},
          idx \in 0..MaxAtts, k \in 0..MaxAtts :
          /\ msg = [uid |-> 1, date |-> d, atts |-> [p \in 1..(MaxAtts + 1) |-> n]]
          /\ j = idx + 1
          /\ attachment_index = idx
          /\ files = [x \in ExistingChain(msg, n, rule, idx + 1, k) |-> OldContent]
    /\ mailbox = [u \in UIDs |-> IF u = 1 THEN msg ELSE Unfetched]
    /\ folder = UIDs
    /\ seen = {}
    /\ dir_exists = TRUE
    /\ via = "api"
    /\ prev = NoPrev
    /\ processed_uids = {}
    /\ pc = "atts"
    /\ client = "open"
    /\ uids = ServerSearch(_build_search_criteria(rule), folder)
    /\ i = 1
    /\ final_path = <<>>
    /\ stats = [RunStats EXCEPT !.emails_processed = 1]
    /\ exc = "none"
    /\ outcome = "none"
    /\ calls = <<Call("mkdir", 0, TRUE), Call("connect", 0, TRUE),
                 Call("select_folder", 0, TRUE), Call("search", 0, TRUE),
                 Call("fetch", 1, TRUE)>>
    /\ failures = 0
    /\ other = NoOther

ResolverNext ==
    \/ Resolve
    \/ WriteOk
    \/ WriteFails

ResolverSpec == ResolverInit /\ [][ResolverNext]_vars

TypeOK ==
    /\ pc \in {"idle", "mkdir", "connect", "select", "search", "loop", "atts",
               "write", "mark", "move", "finally", "done"}
    /\ outcome \in {"none", "returned", "raised"}
    /\ client \in {"none", "open", "closed"}
    /\ failures \in 0..MaxFailures

\* Behaviours under fairness: a started run keeps executing until it ends.
\* They are explored for the rule that uses every feature (filename filter,
\* mark-as-read, move) and for the rule whose template cannot be filled.
FullRuleConfig ==
    [name |-> S_Bills, account_name |-> S_Acct, imap_folder |-> S_INBOX,
     from_contains |-> <<>>, subject_contains |-> <<>>, filename_regex |-> S_pdf,
     mark_as_read |-> TRUE, move_to_folder |-> S_Archive,
     filename_template |-> <<>>]

FairInit == Init /\ rule \in {FullRuleConfig, BadRuleConfig}

FairSpec == FairInit /\ [][Next]_vars /\ WF_vars(RunStep)

(***************************************************************************)
(* Two runs on one destination directory.  Beside the run modelled above,  *)
(* a second run of the same rule saves the attachment of a message of its  *)
(* own; of that run only the steps that touch dest_folder are modelled:    *)
(* the call of build_download_filename and the write (email_core.py:       *)
(* 375-405).  The two runs share nothing but the directory.                *)
(***************************************************************************)
\* The message the other run is handling: same Date header, one .pdf part.
OtherMsg == [uid |-> MaxMsgs + 1, date |-> Date1, atts |-> <<S_a_pdf>>]

\* The other run has created dest_folder and reached its attachment loop.
OtherStart ==
    /\ other.pc = "off"
    /\ pc # "idle"
    /\ dir_exists' = TRUE
    /\ other' = [other EXCEPT !.pc = "atts"]
    /\ UNCHANGED <<rule, mailbox, folder, seen, files, via, prev, processed_uids,
                   localVars, pc, client, stats, exc, outcome, calls, failures>>

\* final_path = build_download_filename(...) in the other run.
OtherResolve ==
    /\ other.pc = "atts"
    /\ \E r \in {build_download_filename(OtherMsg, OtherMsg.atts[1], rule, 1,
                                         DOMAIN files)} :
          other' = [other EXCEPT !.pc = "write", !.path = r.path]
    /\ UNCHANGED <<envVars, via, prev, processed_uids,
                   localVars, pc, client, stats, exc, outcome, calls, failures>>

\* with final_path.open("wb") as f: f.write(payload) in the other run.
OtherWrite ==
    /\ other.pc = "write"
    /\ \/ /\ files' = WriteFile(files, other.path, Payload(OtherMsg, 1))
          /\ other' = [other EXCEPT !.pc = "done", !.saved = <<other.path>>]
          /\ UNCHANGED failures
       \/ /\ CanFail
          /\ failures' = failures + 1
          /\ other' = [other EXCEPT !.pc = "done"]
          /\ UNCHANGED files
    /\ UNCHANGED <<rule, mailbox, folder, seen, dir_exists, via, prev, processed_uids,
                   localVars, pc, client, stats, exc, outcome, calls>>

ConcurrentInit == Init /\ rule = FullRuleConfig

ConcurrentNext ==
    \/ Next
    \/ OtherStart
    \/ OtherResolve
    \/ OtherWrite

ConcurrentSpec == ConcurrentInit /\ [][ConcurrentNext]_vars

(***************************************************************************)
(* Vocabulary of the properties.                                           *)
(***************************************************************************)
CallsOf(op)     == {p \in DOMAIN calls : calls[p].op = op}
FailedCalls(op) == {p \in CallsOf(op) : ~calls[p].ok}
FetchedUids     == {calls[p].uid : p \in CallsOf("fetch")}
WrittenUids     == {calls[p].uid : p \in CallsOf("write")}
Records         == Range(stats.downloaded_attachments)
RecordUids      == {r.uid : r \in Records}
SearchedUids    == {uids[p] : p \in DOMAIN uids}
SessionOps      == {"select_folder", "search", "fetch", "add_flags", "move"}

\* The run is over and its for-loop ran to the end of the search result.
RanToEnd == pc = "done" /\ outcome = "returned" /\ client = "closed"

\* The current invocation is the second one, of the caller named.
SecondRun(caller) == via = caller /\ prev # NoPrev

(***************************************************************************)
(* C1  Idempotence of run_rule over two runs: when the second run is given *)
(* the processed-UID set P the first run returned, it issues no fetch,     *)
(* writes no file and produces no AttachmentRecord for a UID of P, and     *)
(* once it has run to the end it has fetched again every UID the first     *)
(* run found that is not in P.                                             *)
(***************************************************************************)
C1_Idempotent ==
    SecondRun("api") =>
        /\ processed_uids = prev.processed_uids
        /\ \A u \in UIDs :
              uid_str(u) \in prev.processed_uids =>
                  /\ uid_str(u) \notin RecordUids
                  /\ u \notin WrittenUids
                  /\ u \notin FetchedUids
        /\ RanToEnd =>
              \A p \in DOMAIN prev.uids :
                  uid_str(prev.uids[p]) \notin prev.processed_uids
                      => prev.uids[p] \in FetchedUids

C1_Witness ==
    /\ SecondRun("api") /\ RanToEnd
    /\ \E u \in SearchedUids : uid_str(u) \in prev.processed_uids
    /\ \E p \in DOMAIN prev.uids :
          /\ uid_str(prev.uids[p]) \notin prev.processed_uids
          /\ prev.uids[p] \in FetchedUids

(***************************************************************************)
(* C2  No re-processing through the management command: when the command   *)
(* is run twice for a rule that moves nothing, the second invocation saves *)
(* no attachment of a message the first invocation fully processed (its    *)
(* UID was returned as processed and an attachment of it was saved).       *)
(***************************************************************************)
C2_CommandNoReprocess ==
    (SecondRun("command") /\ rule.move_to_folder = <<>>) =>
        \A r \in Records : r.uid \notin (prev.processed_uids \cap prev.saved)

(***************************************************************************)
(* C3  At the end of a run every UID of RunResult.processed_uids has an    *)
(* AttachmentRecord; a message with no saved attachment is not in the set. *)
(***************************************************************************)
C3_ProcessedHaveRecord ==
    (pc = "done" /\ outcome = "returned") => \A u \in stats.processed_uids : u \in RecordUids

(***************************************************************************)
(* C4  Once a message has been fully handled (the loop is past its         *)
(* attachments), an AttachmentRecord with its UID implies that its UID is  *)
(* in RunResult.processed_uids.                                            *)
(***************************************************************************)
HandledPositions ==
    {p \in DOMAIN uids : p < i \/ (p = i /\ pc \in {"mark", "move"})}

C4_SavedIsProcessed ==
    \A p \in HandledPositions :
        uid_str(uids[p]) \in RecordUids => uid_str(uids[p]) \in stats.processed_uids

C4_Witness ==
    /\ pc = "done"
    /\ \E p \in HandledPositions :
          /\ uid_str(uids[p]) \in RecordUids
          /\ uid_str(uids[p]) \in stats.processed_uids

(***************************************************************************)
(* C5  A fetch that raises does not stop the run: the step records exactly *)
(* one error naming the UID, changes nothing else of the result and moves  *)
(* on to the next UID; a run that then runs to its end has issued a fetch  *)
(* for every UID of the search result that was not already processed, and  *)
(* its error list names a UID as failed to fetch once per failed fetch.    *)
(***************************************************************************)
FetchErrors(u) ==
    {p \in DOMAIN stats.errors : stats.errors[p] = [kind |-> "fetch", ref |-> uid_str(u)]}

C5_FetchFailureStep ==
    \A u \in UIDs :
        calls' = Append(calls, Call("fetch", u, FALSE)) =>
            /\ stats' = [stats EXCEPT !.errors =
                            Append(@, [kind |-> "fetch", ref |-> uid_str(u)])]
            /\ pc' = "loop" /\ i' = i + 1 /\ uids' = uids
            /\ exc' = "none" /\ outcome' = "none"

C5_FetchFailureEnd ==
    /\ \A u \in UIDs :
          Cardinality(FetchErrors(u)) =
              Cardinality({p \in FailedCalls("fetch") : calls[p].uid = u})
    /\ RanToEnd =>
          \A u \in SearchedUids : ~AlreadyProcessed(u) => u \in FetchedUids

C5_FetchFailureContinues ==
    [][C5_FetchFailureStep]_vars /\ []C5_FetchFailureEnd

C5_Witness ==
    /\ RanToEnd
    /\ \E p, q \in DOMAIN calls :
          /\ p < q
          /\ calls[p] = Call("fetch", calls[p].uid, FALSE)
          /\ calls[q].op = "write" /\ calls[q].ok
          /\ calls[q].uid # calls[p].uid
    /\ Len(stats.errors) = 1

(***************************************************************************)
(* C6  A folder-selection failure ends the run with an early return: the   *)
(* RunResult carries a single error entry, no message was examined, no     *)
(* attachment saved, and no search, fetch, write or post-action was made.  *)
(***************************************************************************)
C6_SelectFailureReturns ==
    (pc = "done" /\ FailedCalls("select_folder") # {}) =>
        /\ outcome = "returned"
        /\ Len(stats.errors) = 1
        /\ stats.emails_processed = 0
        /\ stats.attachments_downloaded = 0
        /\ \A p \in DOMAIN calls :
              calls[p].op \notin {"search", "fetch", "write", "add_flags", "move"}

(***************************************************************************)
(* C7  A connection or login failure is fatal: the run returns a RunResult *)
(* with exactly one error entry, zero counters, no record and no processed *)
(* UID, and makes no select, search, fetch, flag, move or logout call and  *)
(* writes no file.                                                         *)
(***************************************************************************)
C7_ConnectFailureFatal ==
    FailedCalls("connect") # {} =>
        /\ pc = "done" /\ outcome = "returned"
        /\ Len(stats.errors) = 1
        /\ stats.errors[1].kind = "connect"
        /\ stats.emails_processed = 0
        /\ stats.attachments_downloaded = 0
        /\ stats.downloaded_attachments = <<>>
        /\ stats.processed_uids = {}
        /\ \A p \in DOMAIN calls :
              calls[p].op \notin SessionOps \cup {"logout", "write"}

C7_Witness ==
    /\ FailedCalls("connect") # {}
    /\ pc = "done" /\ outcome = "returned"

(***************************************************************************)
(* C8  Guaranteed session release: a run that opened the connection        *)
(* eventually logs out; logout is called at most once, and exactly once    *)
(* by the time the run is over, whichever way it ends; no session call     *)
(* follows the logout.                                                     *)
(***************************************************************************)
Connected == \E p \in CallsOf("connect") : calls[p].ok

C8_ReleaseSafety ==
    /\ Cardinality(CallsOf("logout")) <= 1
    /\ (Connected /\ pc = "done") => Cardinality(CallsOf("logout")) = 1
    /\ \A p, q \in DOMAIN calls :
          (p < q /\ calls[p].op = "logout") => calls[q].op \notin SessionOps

C8_SessionReleased ==
    /\ []C8_ReleaseSafety
    /\ [](Connected => <>(pc = "done" /\ Cardinality(CallsOf("logout")) = 1))

C8_Witness ==
    /\ pc = "done" /\ outcome = "raised"
    /\ exc = "KeyError"
    /\ stats.attachments_downloaded > 0
    /\ Cardinality(CallsOf("logout")) = 1

(***************************************************************************)
(* C9  A logout failure never changes the outcome: the step in which       *)
(* logout raises leaves the RunResult untouched (no error entry added),    *)
(* and the run returns it exactly when no exception was propagating, as    *)
(* it does when logout succeeds.                                           *)
(***************************************************************************)
C9_LogoutStep ==
    calls' = Append(calls, Call("logout", 0, FALSE)) =>
        /\ stats' = stats
        /\ exc' = exc
        /\ outcome' = IF exc = "none" THEN "returned" ELSE "raised"

C9_LogoutFailureHarmless == [][C9_LogoutStep]_vars

C9_Witness ==
    /\ pc = "done" /\ outcome = "returned"
    /\ FailedCalls("logout") # {}
    /\ stats.attachments_downloaded > 0

(***************************************************************************)
(* C10  A failure of mark-as-read or of move-to-folder is not escalated:   *)
(* the step adds no error, leaves the RunResult unchanged, raises nothing, *)
(* and the run goes on (to the move when one is configured and the mark    *)
(* failed, to the next UID otherwise).                                     *)
(***************************************************************************)
C10_PostActionStep ==
    \A u \in UIDs :
        /\ calls' = Append(calls, Call("add_flags", u, FALSE)) =>
              /\ stats' = stats /\ exc' = "none" /\ outcome' = "none"
              /\ IF rule.move_to_folder # <<>>
                 THEN pc' = "move" /\ i' = i
                 ELSE pc' = "loop" /\ i' = i + 1
        /\ calls' = Append(calls, Call("move", u, FALSE)) =>
              /\ stats' = stats /\ exc' = "none" /\ outcome' = "none"
              /\ pc' = "loop" /\ i' = i + 1

C10_PostActionEnd ==
    RanToEnd =>
        /\ \A p \in DOMAIN stats.errors : stats.errors[p].kind \in {"fetch", "write"}
        /\ \A p \in FailedCalls("add_flags") \cup FailedCalls("move") :
              /\ uid_str(calls[p].uid) \in stats.processed_uids
              /\ \A u \in SearchedUids :
                    (u > calls[p].uid /\ ~AlreadyProcessed(u)) => u \in FetchedUids

C10_PostActionNotEscalated ==
    [][C10_PostActionStep]_vars /\ []C10_PostActionEnd

C10_Witness ==
    /\ RanToEnd
    /\ \E p \in FailedCalls("move"), q \in CallsOf("fetch") : p < q
    /\ stats.errors = <<>>

(***************************************************************************)
(* C11  With mark_as_read set and a move folder configured, a message of   *)
(* which an attachment was saved eventually has exactly one add_flags call *)
(* and exactly one move call for its UID; there is never more than one of  *)
(* either (no retry, also after a failure), every move call comes after    *)
(* the add_flags call of the same UID whether that call failed or not, and *)
(* both calls have been made by the time the run is over.                  *)
(***************************************************************************)
MarkCalls(u) == {p \in CallsOf("add_flags") : calls[p].uid = u}
MoveCalls(u) == {p \in CallsOf("move") : calls[p].uid = u}

PostActionsConfigured == rule.mark_as_read /\ rule.move_to_folder # <<>>

C11_Safety ==
    PostActionsConfigured =>
        \A u \in UIDs :
            /\ Cardinality(MarkCalls(u)) <= 1
            /\ Cardinality(MoveCalls(u)) <= 1
            /\ \A q \in MoveCalls(u) : \E p \in MarkCalls(u) : p < q
            /\ (pc = "done" /\ uid_str(u) \in RecordUids) =>
                   /\ Cardinality(MarkCalls(u)) = 1
                   /\ Cardinality(MoveCalls(u)) = 1

C11_PostActionsOnce ==
    /\ []C11_Safety
    /\ \A u \in UIDs :
          []((PostActionsConfigured /\ uid_str(u) \in RecordUids)
                => <>(/\ Cardinality(MarkCalls(u)) = 1
                      /\ Cardinality(MoveCalls(u)) = 1))

C11_Witness ==
    /\ pc = "done" /\ PostActionsConfigured
    /\ \E u \in UIDs :
          /\ uid_str(u) \in RecordUids
          /\ \E p \in MarkCalls(u), q \in MoveCalls(u) : ~calls[p].ok /\ p < q

(***************************************************************************)
(* C12  No existing file is overwritten or deleted: the path the resolver  *)
(* returned names no file of dest_folder when the write starts, and every  *)
(* step leaves each file that was in dest_folder (there before the run or  *)
(* written earlier in it) in place with its content unchanged.             *)
(***************************************************************************)
C12_ResolvedPathFree == pc = "write" => final_path \notin DOMAIN files

C12_FilesKept ==
    \A n \in DOMAIN files : n \in DOMAIN files' /\ files'[n] = files[n]

C12_NoOverwrite == []C12_ResolvedPathFree /\ [][C12_FilesKept]_vars

C12_Witness ==
    /\ pc = "atts"
    /\ calls[Len(calls)] = Call("write", 1, TRUE)
    /\ final_path \in DOMAIN files /\ files[final_path] = Payload(msg, j - 1)
    /\ \E n \in DOMAIN files : files[n] = OldContent
    /\ \E n \in DOMAIN files : files[n] \notin {OldContent, Payload(msg, j - 1)}

(***************************************************************************)
(* C13  Collision resolution: the resolver returns the computed name when  *)
(* no file has it; otherwise it returns the computed name with _k inserted *)
(* immediately before its extension (a final part that is empty or begins  *)
(* with a dot), k being the smallest integer >= 2 for which the name is    *)
(* free - for every template, also one that does not end with {ext}.       *)
(* (Stated for attachment extensions without forbidden characters; the    *)
(* sanitising of the result is the subject of C15.)                        *)
(***************************************************************************)
\* The name the resolver computes before it looks at dest_folder.
ComputedName ==
    build_download_filename(msg, _iter_attachments(msg)[j].filename, rule,
                            attachment_index, {}).path

\* name with _k inserted after its first p characters.
InsertSuffix(name, p, k) ==
    SubSeq(name, 1, p) \o <<"_">> \o IntToStr(k) \o SubSeq(name, p + 1, Len(name))

ExtensionStarts(name) ==
    {p \in 0..Len(name) : p = Len(name) \/ name[p + 1] = "."}

CleanExt(name) == _sanitize_filename(PathSuffix(name)) = PathSuffix(name)

C13_CollisionResolution ==
    (pc = "write" /\ CleanExt(_iter_attachments(msg)[j].filename)) =>
        Let(ComputedName, LAMBDA N :
            IF N \notin DOMAIN files THEN final_path = N
            ELSE \E p \in ExtensionStarts(N), k \in 2..(Cardinality(DOMAIN files) + 2) :
                    /\ final_path = InsertSuffix(N, p, k)
                    /\ \A k2 \in 2..(k - 1) : InsertSuffix(N, p, k2) \in DOMAIN files)

(***************************************************************************)
(* C14  Index marker, for the templates that contain {index}: the {index}  *)
(* field of the first qualifying attachment of a message is empty (the     *)
(* computed name is the template filled without the field), and the name   *)
(* computed for the N-th one (N > 1) contains _N, as does the resolved     *)
(* name when the computed name is free or the template ends with {ext}.    *)
(* With template "{date:%Y-%m-%d} - {rule_name}{index}{ext}", rule Bills   *)
(* and a message dated 2024-03-01, the first .pdf attachment is resolved   *)
(* to "2024-03-01 - Bills.pdf" and the second to "2024-03-01 - Bills_2.pdf"*)
(* once the first exists.                                                  *)
(***************************************************************************)
TemplateOf(r) == IF r.filename_template # <<>> THEN r.filename_template
                 ELSE DefaultTemplate

IsIndexField(t) == t.t = "field" /\ t.v = <<"index">>

HasIndexField(r) == \E p \in DOMAIN TemplateOf(r) : IsIndexField(TemplateOf(r)[p])

EndsWithExt(r) ==
    TemplateOf(r)[Len(TemplateOf(r))] = [t |-> "field", v |-> <<"ext">>]

\* The name computed from the template with its {index} fields taken out.
NameWithoutIndex ==
    build_download_filename(
        msg, _iter_attachments(msg)[j].filename,
        [rule EXCEPT !.filename_template =
            SelectSeq(TemplateOf(rule), LAMBDA t : ~IsIndexField(t))],
        attachment_index, {}).path

IndexSuffix == <<"_">> \o IntToStr(attachment_index)

S_Example1 == <<"2", "0", "2", "4", "-", "0", "3", "-", "0", "1", " ", "-", " ",
                "B", "i", "l", "l", "s", ".", "p", "d", "f">>
S_Example2 == <<"2", "0", "2", "4", "-", "0", "3", "-", "0", "1", " ", "-", " ",
                "B", "i", "l", "l", "s", "_", "2", ".", "p", "d", "f">>

ExampleCase ==
    /\ rule.filename_template = ExampleTemplate /\ rule.name = S_Bills
    /\ msg.date = Date1
    /\ _iter_attachments(msg)[j].filename = S_a_pdf

C14_FirstHasNoIndex ==
    attachment_index = 1 => ComputedName = NameWithoutIndex

C14_Example ==
    ExampleCase =>
        /\ (attachment_index = 1 /\ DOMAIN files = {}) => final_path = S_Example1
        /\ (attachment_index = 2 /\ DOMAIN files = {S_Example1}) => final_path = S_Example2

C14_IndexMarker ==
    (pc = "write" /\ HasIndexField(rule)) =>
        /\ C14_FirstHasNoIndex
        /\ attachment_index > 1 =>
              /\ Contains(ComputedName, IndexSuffix)
              /\ (ComputedName \notin DOMAIN files \/ EndsWithExt(rule))
                    => Contains(final_path, IndexSuffix)
        /\ C14_Example

C14_Witness ==
    /\ pc = "write" /\ ExampleCase
    /\ attachment_index = 2
    /\ final_path = S_Example2

\* C14 as it is worded, for every template: the name resolved for the
\* first qualifying attachment carries no index, the one resolved for the
\* N-th (N > 1) contains _N.
C14_IndexMarkerAnyTemplate ==
    pc = "write" =>
        /\ C14_FirstHasNoIndex
        /\ attachment_index > 1 => Contains(final_path, IndexSuffix)

(***************************************************************************)
(* C15  The file name the resolver returns contains none of the forbidden  *)
(* characters \ / * ? : " < > |, whatever the template, the rule name and  *)
(* the attachment name, also when the name was taken and a collision       *)
(* suffix was added.                                                       *)
(***************************************************************************)
C15_NoForbiddenChars ==
    pc = "write" => \A p \in DOMAIN final_path : final_path[p] \notin ForbiddenChars

(***************************************************************************)
(* C16  The search criteria are ALL, followed by FROM and the sender text  *)
(* exactly when from_contains is non-empty, followed by SUBJECT and the    *)
(* subject text exactly when subject_contains is non-empty, and nothing    *)
(* else.  With both filters empty the criteria are ALL alone and the       *)
(* search returns every message of the folder; the messages matched are    *)
(* those that satisfy every filter set, and are the same when the two      *)
(* predicates are given in the other order.                                *)
(***************************************************************************)
K_ALL     == <<"A", "L", "L">>
K_FROM    == <<"F", "R", "O", "M">>
K_SUBJECT == <<"S", "U", "B", "J", "E", "C", "T">>

Criteria == _build_search_criteria(rule)

\* The criteria with the predicates after ALL in the other order.
CriteriaReordered ==
    <<K_ALL>>
      \o (IF rule.subject_contains # <<>> THEN <<K_SUBJECT, rule.subject_contains>> ELSE <<>>)
      \o (IF rule.from_contains # <<>> THEN <<K_FROM, rule.from_contains>> ELSE <<>>)

MatchesFilters(u) ==
    /\ rule.from_contains # <<>> => Contains(From(u), rule.from_contains)
    /\ rule.subject_contains # <<>> => Contains(Subject(u), rule.subject_contains)

SearchDone == \E p \in CallsOf("search") : calls[p].ok

C16_SearchCriteria ==
    /\ Criteria[1] = K_ALL
    /\ Len(Criteria) = 1 + (IF rule.from_contains # <<>> THEN 2 ELSE 0)
                         + (IF rule.subject_contains # <<>> THEN 2 ELSE 0)
    /\ rule.from_contains # <<>> =>
          Criteria[2] = K_FROM /\ Criteria[3] = rule.from_contains
    /\ rule.subject_contains # <<>> =>
          /\ Criteria[Len(Criteria) - 1] = K_SUBJECT
          /\ Criteria[Len(Criteria)] = rule.subject_contains
    /\ (rule.from_contains = <<>> /\ rule.subject_contains = <<>>) =>
          /\ Criteria = <<K_ALL>>
          /\ ServerSearch(Criteria, folder) = SortedSeq(folder)
    /\ ServerSearch(CriteriaReordered, folder) = ServerSearch(Criteria, folder)
    /\ SearchDone => SearchedUids = {u \in UIDs : MatchesFilters(u)}

C16_Witness ==
    /\ pc = "done" /\ SearchDone
    /\ rule.from_contains # <<>> /\ rule.subject_contains # <<>>
    /\ Len(Criteria) = 5
    /\ SearchedUids # {} /\ SearchedUids # UIDs

(***************************************************************************)
(* C17  A run without failures, with an empty already-processed set, no    *)
(* filename regex and a template that can be filled, in which each of the  *)
(* m messages the search returned carries exactly one attachment, returns  *)
(* emails_processed = m, attachments_downloaded = m, m processed UIDs and  *)
(* no error; m counts the messages that match the filters, and a message   *)
(* the filters do not match is neither fetched nor counted nor recorded.   *)
(***************************************************************************)
C17_Case ==
    /\ pc = "done" /\ SearchDone
    /\ failures = 0
    /\ processed_uids = {}
    /\ rule.filename_regex = <<>>
    /\ ~FormatRaises(TemplateOf(rule))
    /\ \A u \in SearchedUids : Len(mailbox[u].atts) = 1

C17_CleanRunCounts ==
    C17_Case =>
        /\ outcome = "returned"
        /\ Len(uids) = Cardinality({u \in UIDs : MatchesFilters(u)})
        /\ stats.emails_processed = Len(uids)
        /\ stats.attachments_downloaded = Len(uids)
        /\ Len(stats.downloaded_attachments) = Len(uids)
        /\ stats.processed_uids = {uid_str(u) : u \in SearchedUids}
        /\ Cardinality(stats.processed_uids) = Len(uids)
        /\ stats.errors = <<>>
        /\ \A u \in UIDs : ~MatchesFilters(u) =>
              /\ u \notin FetchedUids
              /\ uid_str(u) \notin RecordUids
              /\ uid_str(u) \notin stats.processed_uids

C17_Witness ==
    /\ C17_Case
    /\ Len(uids) >= 1
    /\ stats.attachments_downloaded = Len(uids)
    /\ \E u \in UIDs : ~MatchesFilters(u)

(***************************************************************************)
(* C18  Once the connection, the folder selection and the search have      *)
(* succeeded, the run ends by returning the accumulated RunResult,         *)
(* whatever goes wrong with a message (a fetch that raises, a fetch        *)
(* response without the UID, a filename that cannot be resolved, a write   *)
(* or post-action failure): no exception leaves run_rule.                  *)
(***************************************************************************)
C18_AlwaysReturns == (pc = "done" /\ SearchDone) => outcome = "returned"

(***************************************************************************)
(* C19  A write failure adds exactly one error entry and nothing else to   *)
(* the RunResult (no count, no record), and the attachment loop goes on    *)
(* with the next attachment of the same message; in a run that runs to its *)
(* end every qualifying attachment of every fetched message has had its    *)
(* write attempted, every unprocessed UID of the search result has been    *)
(* fetched, and the errors, the counter and the records correspond to the  *)
(* failed and the successful writes.                                       *)
(***************************************************************************)
WriteCalls(u) == {p \in CallsOf("write") : calls[p].uid = u}

FetchedOk(u) == \E p \in CallsOf("fetch") : calls[p].uid = u /\ calls[p].ok

Qualifying(m) ==
    {k \in DOMAIN m.atts :
        rule.filename_regex # <<>> => ReSearch(rule.filename_regex, m.atts[k])}

C19_WriteFailureStep ==
    \A u \in UIDs :
        calls' = Append(calls, Call("write", u, FALSE)) =>
            /\ stats' = [stats EXCEPT !.errors =
                            Append(@, [kind |-> "write", ref |-> final_path])]
            /\ pc' = "atts" /\ j' = j + 1 /\ i' = i
            /\ attachment_index' = attachment_index
            /\ exc' = "none" /\ outcome' = "none"

C19_WriteFailureEnd ==
    /\ Cardinality({p \in DOMAIN stats.errors : stats.errors[p].kind = "write"})
          = Cardinality(FailedCalls("write"))
    /\ stats.attachments_downloaded
          = Cardinality(CallsOf("write") \ FailedCalls("write"))
    /\ Len(stats.downloaded_attachments) = stats.attachments_downloaded
    /\ RanToEnd =>
          \A u \in SearchedUids :
              /\ ~AlreadyProcessed(u) => u \in FetchedUids
              /\ FetchedOk(u) =>
                    Cardinality(WriteCalls(u)) = Cardinality(Qualifying(mailbox[u]))

C19_WriteFailureContinues ==
    [][C19_WriteFailureStep]_vars /\ []C19_WriteFailureEnd

C19_Witness ==
    /\ RanToEnd
    /\ Len(stats.errors) = 1
    /\ \E p, q, r \in DOMAIN calls :
          /\ p < q /\ q < r
          /\ calls[p] = Call("write", calls[p].uid, FALSE)
          /\ calls[q] = Call("write", calls[p].uid, TRUE)
          /\ calls[r].op = "fetch" /\ calls[r].ok /\ calls[r].uid # calls[p].uid

(***************************************************************************)
(* C20  add_flags and move are called for a UID only if an attachment of   *)
(* that message was saved in this run: a message that was skipped, whose   *)
(* fetch failed, or of which no attachment was saved gets neither call.    *)
(***************************************************************************)
C20_PostActionsOnlyAfterSave ==
    \A p \in CallsOf("add_flags") \cup CallsOf("move") :
        uid_str(calls[p].uid) \in RecordUids

(***************************************************************************)
(* C21  A UID of the caller-supplied already-processed set is skipped      *)
(* without effect: the step that meets it changes no field of the          *)
(* RunResult, makes no call and touches neither directory nor mailbox, and *)
(* no fetch, write, add_flags or move is ever issued for it, nor a record  *)
(* or a processed entry made.                                              *)
(***************************************************************************)
C21_SkipStep ==
    (pc = "loop" /\ i <= Len(uids) /\ uid_str(uids[i]) \in processed_uids) =>
        /\ stats' = stats /\ calls' = calls
        /\ files' = files /\ seen' = seen /\ folder' = folder
        /\ i' = i + 1 /\ pc' = "loop"

C21_NoCallForSkipped ==
    \A u \in UIDs :
        uid_str(u) \in processed_uids =>
            /\ u \notin FetchedUids /\ u \notin WrittenUids
            /\ MarkCalls(u) = {} /\ MoveCalls(u) = {}
            /\ uid_str(u) \notin RecordUids
            /\ uid_str(u) \notin stats.processed_uids

C21_SkippedUntouched == [][C21_SkipStep]_vars /\ []C21_NoCallForSkipped

C21_Witness ==
    /\ RanToEnd
    /\ \E u \in SearchedUids : uid_str(u) \in processed_uids
    /\ stats.emails_processed = Len(uids) - 1
    /\ Records # {}

(***************************************************************************)
(* C22  An attachment whose filename does not match the configured         *)
(* filename_regex is skipped with no effect: the step changes no field of  *)
(* the RunResult, writes no file, makes no call and does not advance the   *)
(* occurrence index; the loop moves on to the next attachment.             *)
(***************************************************************************)
C22_SkipStep ==
    (/\ pc = "atts" /\ j <= Len(msg.atts)
     /\ rule.filename_regex # <<>>
     /\ ~ReSearch(rule.filename_regex, msg.atts[j])) =>
        /\ stats' = stats /\ files' = files /\ calls' = calls
        /\ attachment_index' = attachment_index
        /\ j' = j + 1 /\ pc' = "atts" /\ exc' = exc

C22_FilteredAttachmentNoEffect == [][C22_SkipStep]_vars

C22_Witness ==
    /\ pc = "write" /\ i = 1 /\ j = 2
    /\ rule.filename_regex # <<>>
    /\ ~ReSearch(rule.filename_regex, msg.atts[1])
    /\ attachment_index = 1
    /\ ~Contains(final_path, <<"_">>)
    /\ stats.errors = <<>> /\ stats.attachments_downloaded = 0

(***************************************************************************)
(* C23  The occurrence index given to the resolver counts the attachments  *)
(* of the current message that passed the filename filter, this one        *)
(* included: 1 for the first, one more for each further one, and again     *)
(* from 1 for the next message whatever earlier messages carried.          *)
(***************************************************************************)
PassingUpTo(n) == Cardinality({k \in Qualifying(msg) : k <= n})

C23_IndexPerMessage ==
    /\ pc = "atts" => attachment_index = PassingUpTo(j - 1)
    /\ pc = "write" =>
          /\ attachment_index = PassingUpTo(j)
          /\ attachment_index >= 1
          /\ final_path =
                build_download_filename(msg, msg.atts[j], rule, PassingUpTo(j),
                                        DOMAIN files).path

C23_Witness ==
    /\ pc = "write" /\ i = 2
    /\ attachment_index = 1
    /\ Cardinality(WriteCalls(uids[1])) = 2

(***************************************************************************)
(* C24  When a run returns, emails_processed is the number of UIDs of the  *)
(* search result that were not in the already-processed set and whose      *)
(* fetch succeeded - with or without attachments; skipped UIDs and UIDs    *)
(* whose fetch failed are not counted.                                     *)
(***************************************************************************)
C24_EmailsProcessed ==
    (pc = "done" /\ outcome = "returned") =>
        /\ stats.emails_processed =
              Cardinality({u \in SearchedUids :
                              uid_str(u) \notin processed_uids /\ FetchedOk(u)})
        /\ stats.emails_processed =
              Cardinality({u \in SearchedUids : uid_str(u) \notin processed_uids})
                - Cardinality(FailedCalls("fetch"))

C24_Witness ==
    /\ RanToEnd
    /\ FailedCalls("fetch") # {}
    /\ \E u \in SearchedUids : FetchedOk(u) /\ mailbox[u].atts = <<>>
    /\ stats.emails_processed = 1

(***************************************************************************)
(* C25  Phase ordering of a run, as seen in the calls it makes: a          *)
(* successful connect precedes the folder selection, a successful          *)
(* selection precedes the search, a successful search precedes every       *)
(* fetch; fetches follow the order of the search result; every write and   *)
(* post-action of a message comes after the successful fetch of that       *)
(* message and before the fetch of the next one, its writes before its     *)
(* post-actions; and after a failed connect or a failed folder selection   *)
(* there is no search, fetch, write or post-action at all.                 *)
(***************************************************************************)
OkBefore(op, p) == \E q \in CallsOf(op) : q < p /\ calls[q].ok

UidPos(u) == CHOOSE k \in DOMAIN uids : uids[k] = u

MessageOps == {"write", "add_flags", "move"}

\* The last fetch before position p.
LastFetchBefore(p) ==
    LET F == {f \in CallsOf("fetch") : f < p}
    IN CHOOSE f \in F : \A g \in F : g <= f

C25_PhaseOrder ==
    /\ \A p \in CallsOf("select_folder") : OkBefore("connect", p)
    /\ \A p \in CallsOf("search") : OkBefore("select_folder", p)
    /\ \A p \in CallsOf("fetch") :
          /\ OkBefore("search", p)
          /\ calls[p].uid \in SearchedUids
    /\ \A p, q \in CallsOf("fetch") :
          p < q => UidPos(calls[p].uid) < UidPos(calls[q].uid)
    /\ \A p \in DOMAIN calls :
          calls[p].op \in MessageOps =>
              /\ OkBefore("fetch", p)
              /\ calls[LastFetchBefore(p)] = Call("fetch", calls[p].uid, TRUE)
    /\ \A p, q \in DOMAIN calls :
          (/\ calls[p].op = "write" /\ calls[q].op \in {"add_flags", "move"}
           /\ calls[p].uid = calls[q].uid) => p < q
    /\ (FailedCalls("connect") \cup FailedCalls("select_folder") # {}) =>
          \A p \in DOMAIN calls :
              calls[p].op \notin MessageOps \cup {"search", "fetch"}

C25_Witness ==
    /\ RanToEnd
    /\ \E w, a, m, f \in DOMAIN calls :
          /\ w < a /\ a < m /\ m < f
          /\ calls[w].op = "write" /\ calls[a].op = "add_flags"
          /\ calls[m].op = "move" /\ calls[f].op = "fetch"
          /\ calls[w].uid = calls[a].uid /\ calls[a].uid = calls[m].uid
          /\ calls[f].uid # calls[m].uid

(***************************************************************************)
(* C26  The collision check is not atomic with the write.  The step that   *)
(* resolves a path leaves dest_folder as it was (the path, free at that    *)
(* moment, is not reserved), and a successful write puts the payload under *)
(* the resolved path and records that path whether or not a file has       *)
(* appeared there since.  With a second run on the same directory the      *)
(* state is reachable in which both runs hold a record for one path and    *)
(* the file has the content of the later writer only.                      *)
(***************************************************************************)
C26_CheckThenAct ==
    /\ (pc = "atts" /\ pc' = "write") =>
          /\ files' = files
          /\ final_path' \notin DOMAIN files
    /\ (pc = "write" /\ \E u \in UIDs : calls' = Append(calls, Call("write", u, TRUE))) =>
          /\ files' = WriteFile(files, final_path, Payload(msg, j))
          /\ Len(stats'.downloaded_attachments) = Len(stats.downloaded_attachments) + 1
          /\ stats'.downloaded_attachments[Len(stats'.downloaded_attachments)].final_path
                = final_path

C26_CollisionCheckNotAtomic == [][C26_CheckThenAct]_vars

C26_Witness ==
    /\ other.saved # <<>>
    /\ \E r \in Records :
          /\ r.final_path = other.saved[1]
          /\ files[r.final_path] # Payload(OtherMsg, 1)
    /\ Cardinality(DOMAIN files) = 1

(***************************************************************************)
(* C27  In every state of a run attachments_downloaded equals the length   *)
(* of downloaded_attachments and the number of successful writes; the i-th *)
(* record is that of the i-th successful write and the i-th error that of  *)
(* the i-th recorded failure (connect, fetch, write); every step leaves    *)
(* the records and the errors it found in place and only appends, so no    *)
(* counter ever decreases.                                                 *)
(***************************************************************************)
IsPrefix(s, t) == Len(s) <= Len(t) /\ SubSeq(t, 1, Len(s)) = s

OkWrites == SelectSeq(calls, LAMBDA c : c.op = "write" /\ c.ok)

RecordedFailures ==
    SelectSeq(calls, LAMBDA c : ~c.ok /\ c.op \in {"connect", "fetch", "write"})

C27_CountsAgree ==
    /\ stats.attachments_downloaded = Len(stats.downloaded_attachments)
    /\ stats.attachments_downloaded = Len(OkWrites)
    /\ \A p \in DOMAIN stats.downloaded_attachments :
          stats.downloaded_attachments[p].uid = uid_str(OkWrites[p].uid)
    /\ Len(stats.errors) = Len(RecordedFailures)
    /\ \A p \in DOMAIN stats.errors : stats.errors[p].kind = RecordedFailures[p].op

C27_AppendOnly ==
    /\ IsPrefix(stats.downloaded_attachments, stats'.downloaded_attachments)
    /\ IsPrefix(stats.errors, stats'.errors)
    /\ stats'.attachments_downloaded >= stats.attachments_downloaded
    /\ stats'.emails_processed >= stats.emails_processed
    /\ stats.processed_uids \subseteq stats'.processed_uids

C28_OnlyNew ==
    /\ stats.processed_uids \subseteq {uid_str(u) : u \in SearchedUids}
    /\ stats.processed_uids \cap processed_uids = {}

C28_CallerSetKept == pc # "idle" => processed_uids' = processed_uids

C28_NewlyProcessedOnly == []C28_OnlyNew /\ [][C28_CallerSetKept]_vars

C28_Witness ==
    /\ RanToEnd
    /\ processed_uids # {}
    /\ stats.processed_uids # {}
    /\ \E u \in SearchedUids : uid_str(u) \in processed_uids
    /\ \E u \in SearchedUids : uid_str(u) \in stats.processed_uids

(***************************************************************************)
(* C29  The destination directory is created before the connection is      *)
(* attempted: every connect call follows a successful mkdir and finds the  *)
(* directory in place; a failed mkdir ends the call with the exception     *)
(* and no call to the server at all; and after a failed connect the        *)
(* directory exists and the run has written no file into it.               *)
(***************************************************************************)
C29_DirectoryBeforeConnect ==
    /\ \A p \in CallsOf("connect") : dir_exists /\ OkBefore("mkdir", p)
    /\ FailedCalls("mkdir") # {} =>
          /\ pc = "done" /\ outcome = "raised"
          /\ client = "none"
          /\ \A p \in DOMAIN calls : calls[p].op = "mkdir"
    /\ FailedCalls("connect") # {} =>
          /\ pc = "done" /\ outcome = "returned"
          /\ dir_exists
          /\ CallsOf("write") = {}
          /\ files = <<>>
          /\ stats.downloaded_attachments = <<>>

C29_Witness ==
    /\ pc = "done"
    /\ FailedCalls("connect") # {}
    /\ \E p \in CallsOf("mkdir") : calls[p].ok
    /\ dir_exists
    /\ files = <<>>

(***************************************************************************)
(* C30  Termination.  A run that has started reaches its end, by return    *)
(* or by exception, whatever fetch, write or post-action fails on the way; *)
(* and nothing is tried twice: mkdir, connect, select_folder, search and   *)
(* logout are called at most once, each UID is fetched, flagged and moved  *)
(* at most once, and a message gets at most one write per qualifying       *)
(* attachment, so the number of calls of a run is bounded by the size of   *)
(* the search result and of its messages.                                  *)
(***************************************************************************)
OnceOps == {"mkdir", "connect", "select_folder", "search", "logout"}

PerUidOps == {"fetch", "add_flags", "move"}

CallsFor(op, u) == {p \in CallsOf(op) : calls[p].uid = u}

C30_NoRetry ==
    /\ \A op \in OnceOps : Cardinality(CallsOf(op)) <= 1
    /\ \A op \in PerUidOps : \A u \in UIDs : Cardinality(CallsFor(op, u)) <= 1
    /\ \A u \in UIDs : Cardinality(WriteCalls(u)) <= Cardinality(Qualifying(mailbox[u]))
    /\ \A p \in DOMAIN calls :
          calls[p].op \in PerUidOps \cup {"write"} => calls[p].uid \in SearchedUids
    /\ Len(calls) <= Cardinality(OnceOps) + Len(uids) * (Cardinality(PerUidOps) + MaxAtts)

C30_Terminates ==
    /\ []C30_NoRetry
    /\ [](pc # "idle" => <>(pc = "done"))

C30_Witness ==
    /\ pc = "done"
    /\ failures = MaxFailures
    /\ \E p \in DOMAIN calls : ~calls[p].ok /\ calls[p].op \in PerUidOps \cup {"write"}
    /\ \E u \in UIDs : WriteCalls(u) # {} /\ Len(mailbox[u].atts) = MaxAtts
    /\ Len(uids) = MaxMsgs

====
